---- MODULE Spec2Model ----
(***************************************************************************)
(* Model of the pr-review command line tool (package pr_review).           *)
(*                                                                         *)
(* One invocation of the program is one run of the state machine: the      *)
(* click group callback loads the configuration, the review (or diff)      *)
(* subcommand resolves the credentials, runs `git diff`, builds the        *)
(* prompt, dispatches to the provider, aggregates the streamed response    *)
(* and decides the process exit code.                                      *)
(*                                                                         *)
(* Text is modelled as a sequence of one-character strings, so that        *)
(* upper(), strip(), slicing, `in` and + are computed as Python computes   *)
(* them.  An optional value (None or a value) is a sequence of length 0    *)
(* or 1; a variable of the run that is not assigned yet is None.  The      *)
(* command line options are fixed when the process starts; the model draws *)
(* each of them, but --ignore-errors, at the step that first reads it.     *)
(***************************************************************************)
EXTENDS Integers, Sequences, FiniteSets, TLC

VARIABLES
    pc,               \* position of the process in the pipeline
    command,          \* the subcommand invoked
    config_file,      \* ~/.pr-review.toml: "absent", "corrupt" or its parsed content
    config,           \* ctx.obj['config']
    config_args,      \* the KEY and VALUE arguments of config set / config unset
    provider_opt,     \* --provider
    model_opt,        \* --model
    env_key,          \* os.environ.get("<PROVIDER>_API_KEY")
    active_provider,
    active_model,
    api_key,
    request,          \* staged, unstaged, file, commit, diff_args
    max_chars,        \* --max-chars
    git_cmds,         \* the command lines handed to subprocess.run, in order
    proc,             \* what subprocess.run did
    diff_text,
    built_prompt,     \* review_command's prompt, the result of make_prompt
    sent,             \* the arguments of each send_to_provider call, in order
    genai_calls,      \* the calls made on the Gemini client, in order
    chunks,           \* the fragments pulled from the response stream, in order
    full_text,        \* print_response's accumulator
    live,             \* the text the Live display shows
    review_passed,    \* print_response's return value
    ignore_errors,    \* --ignore-errors
    error,            \* the exception that ended the run
    console,          \* what was printed: panel titles and status lines
    exit_code,
    peer              \* a second process running at the same time, while it is
                      \* not the one taking steps: None when there is none

vars == <<pc, command, config_file, config, config_args, provider_opt, model_opt,
          env_key, active_provider, active_model, api_key, request, max_chars,
          git_cmds, proc, diff_text, built_prompt, sent, genai_calls, chunks, full_text,
          live, review_passed, ignore_errors, error, console, exit_code, peer>>

----
\* Bounds of the model.

\* Longest `git diff` standard output drawn.
MaxDiffLen == 2

\* Most fragments one response stream delivers.
MaxChunks == 2

\* Most fragments of a response stream handed to print_response on its own.
MaxResponseChunks == 3

----
\* Optional values and text.

None == <<>>

Some(v) == <<v>>

\* Python truthiness of an optional string or list: None and the empty one are false.
Truthy(o) == o /= None /\ o[1] /= <<>>

\* Python truthiness of an optional integer: None and 0 are false.
TruthyInt(o) == o /= None /\ o[1] /= 0

Min(a, b) == IF a < b THEN a ELSE b

Max(a, b) == IF a > b THEN a ELSE b

ascii_lowercase ==
    <<"a", "b", "c", "d", "e", "f", "g", "h", "i", "j", "k", "l", "m",
      "n", "o", "p", "q", "r", "s", "t", "u", "v", "w", "x", "y", "z">>

ascii_uppercase ==
    <<"A", "B", "C", "D", "E", "F", "G", "H", "I", "J", "K", "L", "M",
      "N", "O", "P", "Q", "R", "S", "T", "U", "V", "W", "X", "Y", "Z">>

upper_char(c) ==
    IF \E i \in 1..26 : ascii_lowercase[i] = c
    THEN ascii_uppercase[CHOOSE i \in 1..26 : ascii_lowercase[i] = c]
    ELSE c

\* str.upper()
upper(s) == [i \in 1..Len(s) |-> upper_char(s[i])]

\* Python's `sub in s`
Contains(s, sub) ==
    \E i \in 0..(Len(s) - Len(sub)) : SubSeq(s, i + 1, i + Len(sub)) = sub

\* str.isspace() of one character
IsSpace(c) == c \in {" ", "\n", "\t", "\r"}

\* str.strip()
strip(s) ==
    IF \A i \in 1..Len(s) : IsSpace(s[i])
    THEN <<>>
    ELSE LET first == CHOOSE i \in 1..Len(s) :
                          ~IsSpace(s[i]) /\ \A j \in 1..(i - 1) : IsSpace(s[j])
             last  == CHOOSE i \in 1..Len(s) :
                          ~IsSpace(s[i]) /\ \A j \in (i + 1)..Len(s) : IsSpace(s[j])
         IN  SubSeq(s, first, last)

\* s[:n], for n of either sign
SliceTo(s, n) ==
    IF n >= 0 THEN SubSeq(s, 1, Min(n, Len(s)))
    ELSE SubSeq(s, 1, Max(0, Len(s) + n))

Digit(d) == <<"0", "1", "2", "3", "4", "5", "6", "7", "8", "9">>[d + 1]

RECURSIVE NatStr(_)
NatStr(n) == IF n < 10 THEN <<Digit(n)>> ELSE NatStr(n \div 10) \o <<Digit(n % 10)>>

\* str(n) of an integer, as an f-string formats it
IntStr(n) == IF n < 0 THEN <<"-">> \o NatStr(0 - n) ELSE NatStr(n)

lower_char(c) ==
    IF \E i \in 1..26 : ascii_uppercase[i] = c
    THEN ascii_lowercase[CHOOSE i \in 1..26 : ascii_uppercase[i] = c]
    ELSE c

\* str.lower()
lower(s) == [i \in 1..Len(s) |-> lower_char(s[i])]

\* str.isdigit()
isdigit(s) == s /= <<>> /\ \A i \in 1..Len(s) : \E d \in 0..9 : Digit(d) = s[i]

\* int(s) of a text of digits
RECURSIVE int(_)
int(s) ==
    IF s = <<>> THEN 0
    ELSE 10 * int(SubSeq(s, 1, Len(s) - 1)) + (CHOOSE d \in 0..9 : Digit(d) = s[Len(s)])

\* All texts over alphabet A of length at most n.
Texts(A, n) == UNION {[1..k -> A] : k \in 0..n}

----
\* pr_review/exceptions.py

PrReviewError(message, code) ==
    [type |-> "PrReviewError", message |-> message, exit_code |-> code]

\* Any exception that is not a PrReviewError (raised by a library).
OtherError(message) == [type |-> "Exception", message |-> message]

\* The result of a call: a returned value or a raised exception.
Return(v) == [raised |-> None, value |-> v]

Raise(e) == [raised |-> Some(e), value |-> None]

\* str(e) of a library exception.
ErrText == <<"b", "o", "o", "m">>

----
\* pr_review/config/core.py

gemini == <<"g", "e", "m", "i", "n", "i">>

openai == <<"o", "p", "e", "n", "a", "i">>

anthropic == <<"a", "n", "t", "h", "r", "o", "p", "i", "c">>

\* A provider name the program does not know.
other_provider == <<"x">>

default_model ==
    <<"g", "e", "m", "i", "n", "i", "-", "2", ".", "5", "-", "f", "l", "a", "s", "h",
      "-", "p", "r", "e", "v", "i", "e", "w", "-", "0", "4", "-", "1", "7">>

other_model == <<"m">>

DEFAULT_CONFIG ==
    [provider |-> gemini,
     model    |-> default_model,
     api_keys |-> [p \in {gemini, openai, anthropic} |-> <<>>]]

\* dict.get(key, default) of a record or function
Get(d, key, default) == IF key \in DOMAIN d THEN d[key] ELSE default

\* `file` is the state of CONFIG_PATH: absent, present and parsed to `content`, or
\* present and failing to open or parse.
load_config(file) ==
    IF file.state = "absent" THEN Return(DEFAULT_CONFIG)
    ELSE IF file.state = "corrupt"
    THEN Raise(PrReviewError(
             <<"E", "r", "r", "o", "r", " ", "l", "o", "a", "d", "i", "n", "g", " ",
               "c", "o", "n", "f", "i", "g", ":", " ">> \o ErrText, 2))
    ELSE Return(file.content)

\* save_config: `how` is what the file system does.  "open_error": open() raises and
\* the file is left as it was.  "dump_error": the file was opened for writing, which
\* empties it, and the dump raises before or after part of the text was written.
\* `files` is the set of states the call can leave CONFIG_PATH in.
save_config(cfg, file, how) ==
    LET failed == Raise(PrReviewError(
                      <<"E", "r", "r", "o", "r", " ", "s", "a", "v", "i", "n", "g", " ",
                        "c", "o", "n", "f", "i", "g", ":", " ">> \o ErrText, 2))
    IN  IF how = "ok"
        THEN [result |-> Return(None), files |-> {[state |-> "ok", content |-> cfg]}]
        ELSE IF how = "open_error"
        THEN [result |-> failed, files |-> {file}]
        ELSE [result |-> failed,
              files |-> {[state |-> "ok", content |-> <<>>], [state |-> "corrupt"]}]

----
\* pr_review/git_utils/core.py

\* Mutant of construct_diff_command: the default to staged changes is tried before
\* the file, commit and raw-argument rules.
construct_diff_command_default_first(staged, unstaged, file_path, commit, diff_args) ==
    LET cmd == << <<"g", "i", "t">>, <<"d", "i", "f", "f">> >>
        cached == <<"-", "-", "c", "a", "c", "h", "e", "d">>
    IN  IF staged THEN Append(cmd, cached)
        ELSE IF ~unstaged THEN Append(cmd, cached)
        ELSE IF Truthy(file_path) THEN cmd \o << <<"-", "-">>, file_path[1] >>
        ELSE IF Truthy(commit)
        THEN IF Contains(commit[1], <<".", ".">>)
             THEN Append(cmd, commit[1])
             ELSE Append(cmd, commit[1] \o <<"^", ".", ".">> \o commit[1])
        ELSE IF Truthy(diff_args) THEN cmd \o diff_args[1]
        ELSE cmd

\* Mutant of construct_diff_command: the file rule is tried before the staged rule.
construct_diff_command_file_first(staged, unstaged, file_path, commit, diff_args) ==
    LET cmd == << <<"g", "i", "t">>, <<"d", "i", "f", "f">> >>
        cached == <<"-", "-", "c", "a", "c", "h", "e", "d">>
    IN  IF Truthy(file_path) THEN cmd \o << <<"-", "-">>, file_path[1] >>
        ELSE IF staged THEN Append(cmd, cached)
        ELSE IF Truthy(commit)
        THEN IF Contains(commit[1], <<".", ".">>)
             THEN Append(cmd, commit[1])
             ELSE Append(cmd, commit[1] \o <<"^", ".", ".">> \o commit[1])
        ELSE IF Truthy(diff_args) THEN cmd \o diff_args[1]
        ELSE IF ~unstaged THEN Append(cmd, cached)
        ELSE cmd

construct_diff_command(staged, unstaged, file_path, commit, diff_args) ==
    LET cmd == << <<"g", "i", "t">>, <<"d", "i", "f", "f">> >>
        cached == <<"-", "-", "c", "a", "c", "h", "e", "d">>
    IN  IF staged THEN Append(cmd, cached)
        ELSE IF Truthy(file_path) THEN cmd \o << <<"-", "-">>, file_path[1] >>
        ELSE IF Truthy(commit)
        THEN IF Contains(commit[1], <<".", ".">>)
             THEN Append(cmd, commit[1])
             ELSE Append(cmd, commit[1] \o <<"^", ".", ".">> \o commit[1])
        ELSE IF Truthy(diff_args) THEN cmd \o diff_args[1]
        ELSE IF ~unstaged THEN Append(cmd, cached)
        ELSE cmd

\* Mutant of truncated_message: the size stated as original is the size kept.
truncated_message_kept(max, len) ==
    <<"\n", "\n", "[", "D", "i", "f", "f", " ", "t", "r", "u", "n", "c", "a", "t",
      "e", "d", " ", "t", "o", " ">> \o IntStr(max)
    \o <<" ", "c", "h", "a", "r", "a", "c", "t", "e", "r", "s", ".", " ", "O", "r",
         "i", "g", "i", "n", "a", "l", " ", "s", "i", "z", "e", ":", " ">> \o IntStr(max)
    \o <<" ", "c", "h", "a", "r", "a", "c", "t", "e", "r", "s", "]">>

\* get_git_diff line 75: the notice appended to a truncated diff.
truncated_message(max, len) ==
    <<"\n", "\n", "[", "D", "i", "f", "f", " ", "t", "r", "u", "n", "c", "a", "t",
      "e", "d", " ", "t", "o", " ">> \o IntStr(max)
    \o <<" ", "c", "h", "a", "r", "a", "c", "t", "e", "r", "s", ".", " ", "O", "r",
         "i", "g", "i", "n", "a", "l", " ", "s", "i", "z", "e", ":", " ">> \o IntStr(len)
    \o <<" ", "c", "h", "a", "r", "a", "c", "t", "e", "r", "s", "]">>

\* Mutant of get_git_diff: an output as long as the limit is truncated too.
get_git_diff_at_limit(req, max, run) ==
    LET cmd == construct_diff_command(req.staged, req.unstaged, req.file,
                                      req.commit, req.diff_args)
        result ==
            IF run.kind = "ok"
            THEN IF TruthyInt(max) /\ Len(run.stdout) >= max[1]
                 THEN Return(SliceTo(run.stdout, max[1])
                             \o truncated_message(max[1], Len(run.stdout)))
                 ELSE Return(run.stdout)
            ELSE IF run.kind = "CalledProcessError"
            THEN Raise(PrReviewError(
                     <<"G", "i", "t", " ", "e", "r", "r", "o", "r", ":", " ">>
                     \o strip(run.stderr), 3))
            ELSE Raise(OtherError(ErrText))
    IN  [result |-> result, cmd |-> cmd]

\* Mutant of get_git_diff: the error message leaves out the tool's stderr.
get_git_diff_no_stderr(req, max, run) ==
    LET cmd == construct_diff_command(req.staged, req.unstaged, req.file,
                                      req.commit, req.diff_args)
        result ==
            IF run.kind = "ok"
            THEN IF TruthyInt(max) /\ Len(run.stdout) > max[1]
                 THEN Return(SliceTo(run.stdout, max[1])
                             \o truncated_message(max[1], Len(run.stdout)))
                 ELSE Return(run.stdout)
            ELSE IF run.kind = "CalledProcessError"
            THEN Raise(PrReviewError(
                     <<"G", "i", "t", " ", "e", "r", "r", "o", "r", ":", " ">>, 3))
            ELSE Raise(OtherError(ErrText))
    IN  [result |-> result, cmd |-> cmd]

\* `run` is what subprocess.run did with the command: completed with exit status 0,
\* completed with another status, or could not start the tool.  Returns the result
\* and the command that was run.
get_git_diff(req, max, run) ==
    LET cmd == construct_diff_command(req.staged, req.unstaged, req.file,
                                      req.commit, req.diff_args)
        result ==
            IF run.kind = "ok"
            THEN IF TruthyInt(max) /\ Len(run.stdout) > max[1]
                 THEN Return(SliceTo(run.stdout, max[1])
                             \o truncated_message(max[1], Len(run.stdout)))
                 ELSE Return(run.stdout)
            ELSE IF run.kind = "CalledProcessError"
            THEN Raise(PrReviewError(
                     <<"G", "i", "t", " ", "e", "r", "r", "o", "r", ":", " ">>
                     \o strip(run.stderr), 3))
            ELSE Raise(OtherError(ErrText))
    IN  [result |-> result, cmd |-> cmd]

----
\* pr_review/ai_providers/gemini.py

\* The one character a string of this language cannot hold.
backtick == "<backtick>"

\* The instruction header after textwrap.dedent, as consecutive pieces of its text
\* (the pieces end at line breaks and at backticks).
header ==
    <<"\n",
      "You're an expert software engineer performing a detailed code review.\n",
      "Evaluate the provided pull request (PR) carefully, considering correctness,\n",
      "readability, efficiency, adherence to best practices, and potential edge cases\n",
      "or bugs. Provide constructive feedback highlighting specific issues or suggestions\n",
      "for improvements. Conclude your review explicitly with either ",
      backtick,
      "APPROVED",
      backtick,
      " if the PR\n",
      "meets high standards and can be merged without further changes, or ",
      backtick,
      "MAKE CHANGES",
      backtick,
      "\n",
      "if revisions are required, clearly stating your reasoning.\n",
      "\n",
      "**Format in MARKDOWN syntax.** Do not wrap your entire response in markdown code fences (like ",
      backtick,
      backtick,
      backtick,
      "markdown ... ",
      backtick,
      backtick,
      backtick,
      "); just provide the raw markdown content starting directly with your feedback or conclusion.\n",
      "\n",
      "Example:\n",
      "\n",
      backtick,
      backtick,
      backtick,
      "\n",
      "## Title: [Give a title for the PR]\n",
      "Feedback:\n",
      "- [Specific issue or suggestion #1]\n",
      "- [Specific issue or suggestion #2]\n",
      "- [Further detailed feedback as needed]\n",
      "\n",
      "Commit message:\n",
      "- [Commit message]\n",
      "\n",
      "Conclusion: APPROVED\n",
      "\n",
      "or\n",
      "\n",
      backtick,
      backtick,
      backtick,
      "\n",
      "## Title: [Give a title for the PR]\n",
      "Feedback:\n",
      "- [Specific issue or suggestion #1]\n",
      "- [Specific issue or suggestion #2]\n",
      "- [Further detailed feedback as needed]\n",
      "\n",
      "Conclusion: MAKE CHANGES\n">>

\* Mutant of make_prompt: the diff is stripped before it is appended.
make_prompt_strip(text) == header \o strip(text)

make_prompt(text) == header \o text

\* Mutant of send_to_gemini: the key and the model are taken in the other order.
send_to_gemini_swapped(prompt, key, model, outcome) ==
    LET configure == [op |-> "configure", api_key |-> model]
        generate  == [op |-> "generate_content", model |-> key,
                      prompt |-> prompt, stream |-> TRUE]
    IN  IF outcome = "configure_error"
        THEN [result |-> Raise(OtherError(ErrText)), calls |-> <<configure>>]
        ELSE IF outcome = "generate_error"
        THEN [result |-> Raise(OtherError(ErrText)), calls |-> <<configure, generate>>]
        ELSE [result |-> Return("stream"), calls |-> <<configure, generate>>]

\* send_to_gemini: `outcome` is what the Gemini client did: "ok", or the call that
\* raised.  Returns the result and the client calls made.
send_to_gemini(prompt, key, model, outcome) ==
    LET configure == [op |-> "configure", api_key |-> key]
        generate  == [op |-> "generate_content", model |-> model,
                      prompt |-> prompt, stream |-> TRUE]
    IN  IF outcome = "configure_error"
        THEN [result |-> Raise(OtherError(ErrText)), calls |-> <<configure>>]
        ELSE IF outcome = "generate_error"
        THEN [result |-> Raise(OtherError(ErrText)), calls |-> <<configure, generate>>]
        ELSE [result |-> Return("stream"), calls |-> <<configure, generate>>]

----
\* pr_review/ai_providers/core.py

\* Mutant of send_to_provider: every provider name is handed to send_to_gemini.
send_to_provider_fall_through(prompt, provider, model, key, outcome) ==
    LET inner == send_to_gemini(prompt, key, model, outcome)
        e == inner.result.raised
    IN  IF e /= None /\ e[1].type /= "PrReviewError"
        THEN [result |-> Raise(PrReviewError(
                             <<"E", "r", "r", "o", "r", " ", "w", "i", "t", "h", " ", "A",
                               "I", " ", "p", "r", "o", "v", "i", "d", "e", "r", " ">>
                             \o provider \o <<":", " ">> \o e[1].message, 4)),
              calls |-> inner.calls]
        ELSE inner

\* Mutant of send_to_provider: the anthropic branch is missing, so that the name
\* falls to the unknown-provider branch.
send_to_provider_no_anthropic(prompt, provider, model, key, outcome) ==
    LET not_implemented ==
            <<" ", "p", "r", "o", "v", "i", "d", "e", "r", " ", "n", "o", "t", " ",
              "y", "e", "t", " ", "i", "m", "p", "l", "e", "m", "e", "n", "t", "e", "d">>
        inner ==
            IF provider = gemini THEN send_to_gemini(prompt, key, model, outcome)
            ELSE IF provider = openai
            THEN [result |-> Raise(PrReviewError(
                                 <<"O", "p", "e", "n", "A", "I">> \o not_implemented, 4)),
                  calls |-> <<>>]
            ELSE [result |-> Raise(PrReviewError(
                                 <<"U", "n", "k", "n", "o", "w", "n", " ", "p", "r", "o",
                                   "v", "i", "d", "e", "r", ":", " ">> \o provider, 4)),
                  calls |-> <<>>]
        e == inner.result.raised
    IN  IF e /= None /\ e[1].type /= "PrReviewError"
        THEN [result |-> Raise(PrReviewError(
                             <<"E", "r", "r", "o", "r", " ", "w", "i", "t", "h", " ", "A",
                               "I", " ", "p", "r", "o", "v", "i", "d", "e", "r", " ">>
                             \o provider \o <<":", " ">> \o e[1].message, 4)),
              calls |-> inner.calls]
        ELSE inner

\* Mutant of send_to_provider: an exception of the client is not wrapped.
send_to_provider_no_wrap(prompt, provider, model, key, outcome) ==
    LET not_implemented ==
            <<" ", "p", "r", "o", "v", "i", "d", "e", "r", " ", "n", "o", "t", " ",
              "y", "e", "t", " ", "i", "m", "p", "l", "e", "m", "e", "n", "t", "e", "d">>
        inner ==
            IF provider = gemini THEN send_to_gemini(prompt, key, model, outcome)
            ELSE IF provider = openai
            THEN [result |-> Raise(PrReviewError(
                                 <<"O", "p", "e", "n", "A", "I">> \o not_implemented, 4)),
                  calls |-> <<>>]
            ELSE IF provider = anthropic
            THEN [result |-> Raise(PrReviewError(
                                 <<"A", "n", "t", "h", "r", "o", "p", "i", "c">>
                                 \o not_implemented, 4)),
                  calls |-> <<>>]
            ELSE [result |-> Raise(PrReviewError(
                                 <<"U", "n", "k", "n", "o", "w", "n", " ", "p", "r", "o",
                                   "v", "i", "d", "e", "r", ":", " ">> \o provider, 4)),
                  calls |-> <<>>]
    IN  inner

send_to_provider(prompt, provider, model, key, outcome) ==
    LET not_implemented ==
            <<" ", "p", "r", "o", "v", "i", "d", "e", "r", " ", "n", "o", "t", " ",
              "y", "e", "t", " ", "i", "m", "p", "l", "e", "m", "e", "n", "t", "e", "d">>
        inner ==
            IF provider = gemini THEN send_to_gemini(prompt, key, model, outcome)
            ELSE IF provider = openai
            THEN [result |-> Raise(PrReviewError(
                                 <<"O", "p", "e", "n", "A", "I">> \o not_implemented, 4)),
                  calls |-> <<>>]
            ELSE IF provider = anthropic
            THEN [result |-> Raise(PrReviewError(
                                 <<"A", "n", "t", "h", "r", "o", "p", "i", "c">>
                                 \o not_implemented, 4)),
                  calls |-> <<>>]
            ELSE [result |-> Raise(PrReviewError(
                                 <<"U", "n", "k", "n", "o", "w", "n", " ", "p", "r", "o",
                                   "v", "i", "d", "e", "r", ":", " ">> \o provider, 4)),
                  calls |-> <<>>]
        e == inner.result.raised
    IN  IF e /= None /\ e[1].type /= "PrReviewError"
        THEN [result |-> Raise(PrReviewError(
                             <<"E", "r", "r", "o", "r", " ", "w", "i", "t", "h", " ", "A",
                               "I", " ", "p", "r", "o", "v", "i", "d", "e", "r", " ">>
                             \o provider \o <<":", " ">> \o e[1].message, 4)),
              calls |-> inner.calls]
        ELSE inner

----
\* pr_review/output/formatters.py

MAKE_CHANGES == <<"M", "A", "K", "E", " ", "C", "H", "A", "N", "G", "E", "S">>

Conclusion == <<"C", "o", "n", "c", "l", "u", "s", "i", "o", "n", ":", " ">>

APPROVED == <<"A", "P", "P", "R", "O", "V", "E", "D">>

\* Mutant of accumulate: the fragment's text replaces the accumulated text.
accumulate_replace(text, chunk) == IF chunk /= None THEN chunk[1] ELSE text

\* Mutant of accumulate: the fragment is put in front of the accumulated text.
accumulate_in_front(text, chunk) == IF chunk /= None THEN chunk[1] \o text ELSE text

\* A fragment is an optional text: None for a chunk without a `text` attribute.
accumulate(text, chunk) == IF chunk /= None THEN text \o chunk[1] ELSE text

\* Mutant of classify: the status line is chosen by the Conclusion line alone.
classify_status_by_line(text) ==
    [passed |-> ~Contains(upper(text), MAKE_CHANGES),
     status |-> IF Contains(text, Conclusion \o MAKE_CHANGES)
                THEN <<"Review failed: Changes requested">>
                ELSE IF Contains(text, Conclusion \o APPROVED)
                THEN <<"Review passed: Approved">>
                ELSE <<>>]

\* Mutant of classify: a text with the line Conclusion: APPROVED passes.
classify_by_conclusion(text) ==
    IF Contains(text, Conclusion \o APPROVED)
    THEN [passed |-> TRUE, status |-> <<"Review passed: Approved">>]
    ELSE IF Contains(upper(text), MAKE_CHANGES)
    THEN [passed |-> FALSE,
          status |-> IF Contains(text, Conclusion \o MAKE_CHANGES)
                     THEN <<"Review failed: Changes requested">> ELSE <<>>]
    ELSE [passed |-> TRUE, status |-> <<>>]

\* Mutant of classify: the text is searched without being upper-cased.
classify_no_upper(text) ==
    IF Contains(text, MAKE_CHANGES)
    THEN [passed |-> FALSE,
          status |-> IF Contains(text, Conclusion \o MAKE_CHANGES)
                     THEN <<"Review failed: Changes requested">> ELSE <<>>]
    ELSE [passed |-> TRUE,
          status |-> IF Contains(text, Conclusion \o APPROVED)
                     THEN <<"Review passed: Approved">> ELSE <<>>]

\* The classification at the end of print_response: the return value and the
\* status line printed, if any.
classify(text) ==
    IF Contains(upper(text), MAKE_CHANGES)
    THEN [passed |-> FALSE,
          status |-> IF Contains(text, Conclusion \o MAKE_CHANGES)
                     THEN <<"Review failed: Changes requested">> ELSE <<>>]
    ELSE [passed |-> TRUE,
          status |-> IF Contains(text, Conclusion \o APPROVED)
                     THEN <<"Review passed: Approved">> ELSE <<>>]

----
\* pr_review/cli.py

\* Mutant of resolve: the key of the configuration file is preferred to the
\* environment's.
resolve_config_key_first(cfg, p_opt, m_opt, env) ==
    LET provider == IF Truthy(p_opt) THEN p_opt[1] ELSE Get(cfg, "provider", gemini)
        model    == IF Truthy(m_opt) THEN m_opt[1] ELSE Get(cfg, "model", default_model)
        name     == upper(provider) \o <<"_", "A", "P", "I", "_", "K", "E", "Y">>
        stored   == Get(Get(cfg, "api_keys", <<>>), provider, <<>>)
        key      == IF stored /= <<>> THEN stored
                    ELSE IF Truthy(env[name]) THEN env[name][1] ELSE <<>>
    IN  [provider |-> provider, model |-> model, api_key |-> key, env_name |-> name]

\* review_command lines 88-92: the provider, the model and the key of the run, from
\* the options, the configuration and the environment (`env` reads a variable).
resolve(cfg, p_opt, m_opt, env) ==
    LET provider == IF Truthy(p_opt) THEN p_opt[1] ELSE Get(cfg, "provider", gemini)
        model    == IF Truthy(m_opt) THEN m_opt[1] ELSE Get(cfg, "model", default_model)
        name     == upper(provider) \o <<"_", "A", "P", "I", "_", "K", "E", "Y">>
        key      == IF Truthy(env[name]) THEN env[name][1]
                    ELSE Get(Get(cfg, "api_keys", <<>>), provider, <<>>)
    IN  [provider |-> provider, model |-> model, api_key |-> key, env_name |-> name]

\* Mutant of key_missing: the check is dropped.
key_missing_never(key) == FALSE

\* Mutant of no_changes: the text is tested without strip().
no_changes_no_strip(text) == text = <<>>

\* review_command line 94: `if not api_key`.
key_missing(key) == key = <<>>

\* review_command line 111 and diff_command line 182: `if not diff_text.strip()`.
no_changes(text) == strip(text) = <<>>

\* The `except PrReviewError` clause of cli, review_command and diff_command: the
\* exit code, or None when the clause does not catch the exception.
command_except(e) ==
    IF e.type = "PrReviewError" THEN Some(e.exit_code) ELSE None

\* Mutant of main_except: the exit code of a usage error.
main_except_2(e) == 2

\* The `except Exception` clause of main.
main_except(e) == 1

\* The exit code of a run ended by exception e raised inside a command.
exit_code_of(e) ==
    IF command_except(e) /= None THEN command_except(e)[1] ELSE main_except(e)

\* The panel printed for exception e.
panel_of(e) ==
    IF command_except(e) /= None THEN "Error" ELSE "Unexpected error"

\* Mutant of review_exit_code: --ignore-errors is not consulted.
review_exit_code_no_ignore(ignore, passed) == IF ~passed THEN 1 ELSE 0

\* lines 134-135 and the return to click, which exits 0.
review_exit_code(ignore, passed) == IF ~ignore /\ ~passed THEN 1 ELSE 0

\* config_set lines 281-286 and 291-296: the value stored for the VALUE argument.
parsed_value(value) ==
    IF lower(value) \in {<<"t", "r", "u", "e">>, <<"f", "a", "l", "s", "e">>}
    THEN lower(value) = <<"t", "r", "u", "e">>
    ELSE IF isdigit(value) THEN int(value)
    ELSE value

\* d[k] = v of a dict
Put(d, k, v) == [x \in DOMAIN d \cup {k} |-> IF x = k THEN v ELSE d[x]]

\* del d[k] of a dict
Del(d, k) == [x \in DOMAIN d \ {k} |-> d[x]]

\* config_set lines 270-296: the configuration after the assignment.  `parts` is
\* key.split('.'), of one or two parts; the first of two parts is absent from the
\* configuration or names a table of it.
set_key(cfg, parts, v) ==
    IF Len(parts) = 1 THEN Put(cfg, parts[1], v)
    ELSE LET target == IF parts[1] \in DOMAIN cfg THEN cfg[parts[1]] ELSE <<>>
         IN  Put(cfg, parts[1], Put(target, parts[2], v))

\* config_unset lines 312-329: whether the key is in the configuration.
key_found(cfg, parts) ==
    IF Len(parts) = 1 THEN parts[1] \in DOMAIN cfg
    ELSE parts[1] \in DOMAIN cfg /\ parts[2] \in DOMAIN cfg[parts[1]]

\* config_unset lines 325 and 331: the configuration after the del.
del_key(cfg, parts) ==
    IF Len(parts) = 1 THEN Del(cfg, parts[1])
    ELSE Put(cfg, parts[1], Del(cfg[parts[1]], parts[2]))

----
\* The inputs drawn.

ProviderOpts == {None, Some(gemini), Some(openai), Some(anthropic), Some(other_provider)}

\* --model: not given, given empty, given.
ModelOpts == {None, Some(<<>>), Some(other_model)}

\* The value of an environment variable: unset, empty or a key.
EnvVals == {None, Some(<<>>), Some(<<"e">>)}

ConfigFiles ==
    {[state |-> "absent"], [state |-> "corrupt"]}
    \cup {[state |-> "ok", content |-> c] :
            c \in {<<>>,
                   [api_keys |-> [p \in {gemini} |-> <<"k">>]],
                   [provider |-> openai, model |-> other_model,
                    api_keys |-> [p \in {gemini, openai} |-> <<"k">>]],
                   [provider |-> other_provider,
                    api_keys |-> [p \in {other_provider} |-> <<"k">>]]}}

Request(staged, unstaged, file, commit, diff_args) ==
    [staged |-> staged, unstaged |-> unstaged, file |-> file, commit |-> commit,
     diff_args |-> diff_args]

\* The scope options of the diff subcommand's runs.
AllRequests ==
    {Request(st, un, f, c, a) :
        st \in BOOLEAN, un \in BOOLEAN,
        f \in {None, Some(<<>>), Some(<<"f">>)},
        c \in {None, Some(<<>>), Some(<<"c">>), Some(<<"a", ".", "b">>),
               Some(<<"a", ".", ".", "b">>)},
        a \in {None, Some(<<>>), Some(<< <<"x">> >>), Some(<< <<"x">>, <<"y">> >>)}}

\* The scope options of the review subcommand's runs.
ReviewRequests ==
    {Request(FALSE, FALSE, None, None, None),
     Request(FALSE, TRUE, None, Some(<<"c">>), None)}

AllMaxChars == {None, Some(0), Some(1), Some(2), Some(-1)}

ReviewMaxChars == {None, Some(1)}

Runs(alphabet, stderrs) ==
    {[kind |-> "ok", stdout |-> t] : t \in Texts(alphabet, MaxDiffLen)}
    \cup {[kind |-> "CalledProcessError", stderr |-> t] : t \in stderrs}
    \cup {[kind |-> "OSError"]}

AllRuns ==
    Runs({" ", "\n", "a"},
         {<<>>, <<"\n">>, <<"x">>, <<"x", "\n">>, <<" ", "x", " ", "y", "\n">>})

ReviewRuns == Runs({" ", "a"}, {<<"x">>, <<"x", "\n">>})

GeminiOutcomes == {"ok", "configure_error", "generate_error"}

\* The fragments a stream of a whole run delivers.
ReviewFragments == {None, Some(MAKE_CHANGES), Some(<<"o", "k">>)}

\* The fragments of a stream handed to print_response on its own.
ResponseFragments ==
    {None, Some(<<>>), Some(MAKE_CHANGES), Some(<<"M", "A", "K", "E", " ">>),
     Some(<<"C", "H", "A", "N", "G", "E", "S">>),
     Some(<<"m", "a", "k", "e", " ", "c", "h", "a", "n", "g", "e", "s">>),
     Some(Conclusion), Some(APPROVED), Some(<<"o", "k", "\n">>)}

\* The KEY argument of config set and config unset, split at the dots.
ConfigKeys ==
    {<<"provider">>, <<"model">>, <<"api_keys", gemini>>, <<"api_keys", openai>>}

\* The VALUE argument of config set.
ConfigValues == {<<"v">>, <<"T", "r", "u", "e">>, <<"7">>}

SaveOutcomes == {"ok", "open_error", "dump_error"}

----
\* The steps of a run.

Exit(code) == pc' = "exit" /\ exit_code' = code

\* Mutant of Fail: the failure is reported and the failed step is tried again.
Fail_and_retry(e) ==
    /\ error' = Some(e)
    /\ console' = Append(console, panel_of(e))
    /\ UNCHANGED <<pc, exit_code>>

\* An exception raised inside a command ends the run.
Fail(e) ==
    /\ error' = Some(e)
    /\ console' = Append(console, panel_of(e))
    /\ Exit(exit_code_of(e))

\* An exception that no command catches leaves cli() and reaches main.
Propagate(e) ==
    /\ error' = Some(e)
    /\ console' = Append(console, "Unexpected error")
    /\ Exit(main_except(e))

\* cli: the group callback loads the configuration, then click invokes the subcommand.
Cli ==
    /\ pc = "cli"
    /\ LET r == load_config(config_file)
       IN  IF r.raised /= None
           THEN Fail(r.raised[1]) /\ UNCHANGED config
           ELSE /\ config' = Some(r.value)
                /\ pc' = command
                /\ UNCHANGED <<error, console, exit_code>>
    /\ UNCHANGED <<command, config_file, config_args, built_prompt, provider_opt,
                   model_opt, env_key, active_provider, active_model, api_key, request,
                   max_chars, git_cmds, proc, diff_text, sent, genai_calls, chunks,
                   full_text, live, review_passed, ignore_errors, peer>>

\* review_command, lines 85-99.
ReviewResolve ==
    /\ pc = "review"
    /\ \E p \in ProviderOpts, m \in ModelOpts, v \in EnvVals :
         LET names == {upper(q) \o <<"_", "A", "P", "I", "_", "K", "E", "Y">> :
                          q \in {gemini, openai, anthropic, other_provider}}
             r == resolve(config[1], p, m, [n \in names |-> v])
         IN  /\ provider_opt' = p
             /\ model_opt' = m
             /\ env_key' = Some([name |-> r.env_name, value |-> v])
             /\ active_provider' = Some(r.provider)
             /\ active_model' = Some(r.model)
             /\ api_key' = Some(r.api_key)
             /\ IF key_missing(r.api_key)
                THEN /\ console' = Append(console, "API Key Error")
                     /\ Exit(1)
                ELSE /\ pc' = "review_diff"
                     /\ UNCHANGED <<console, exit_code>>
    /\ UNCHANGED <<command, config_file, config_args, built_prompt, config, request,
                   max_chars, git_cmds, proc, diff_text, sent, genai_calls, chunks,
                   full_text, live, review_passed, ignore_errors, error, peer>>

\* The call of get_git_diff and the empty-diff test that both commands start with;
\* `next` is where a non-empty diff leads.
AcquireDiff(requests, maxes, runs, next) ==
    \E req \in requests, max \in maxes, run \in runs :
        LET r == get_git_diff(req, max, run)
        IN  /\ request' = Some(req)
            /\ max_chars' = max
            /\ git_cmds' = Append(git_cmds, r.cmd)
            /\ proc' = Some(run)
            /\ IF r.result.raised /= None
               THEN Fail(r.result.raised[1]) /\ UNCHANGED diff_text
               ELSE /\ diff_text' = Some(r.result.value)
                    /\ UNCHANGED error
                    /\ IF no_changes(r.result.value)
                       THEN /\ console' = Append(console, "Information")
                            /\ Exit(0)
                       ELSE next

\* review_command, lines 102-113.
ReviewGetDiff(requests, maxes, runs) ==
    /\ pc = "review_diff"
    /\ AcquireDiff(requests, maxes, runs,
                   pc' = "review_send" /\ UNCHANGED <<console, exit_code>>)
    /\ UNCHANGED <<command, config_file, config_args, built_prompt, config,
                   provider_opt, model_opt, env_key, active_provider, active_model,
                   api_key, sent, genai_calls, chunks, full_text, live, review_passed,
                   ignore_errors, peer>>

\* diff_command.
DiffCommand(requests, maxes, runs) ==
    /\ pc = "diff"
    /\ AcquireDiff(requests, maxes, runs,
                   console' = Append(console, "diff") /\ Exit(0))
    /\ UNCHANGED <<command, config_file, config_args, built_prompt, config,
                   provider_opt, model_opt, env_key, active_provider, active_model,
                   api_key, sent, genai_calls, chunks, full_text, live, review_passed,
                   ignore_errors, peer>>

\* review_command, lines 116-128.
ReviewSend ==
    /\ pc = "review_send"
    /\ \E outcome \in GeminiOutcomes :
         LET text == make_prompt(diff_text[1])
             r == send_to_provider(text, active_provider[1], active_model[1],
                                   api_key[1], outcome)
         IN  /\ built_prompt' = Some(text)
             /\ sent' = Append(sent, [prompt |-> text,
                                      provider |-> active_provider[1],
                                      model |-> active_model[1],
                                      api_key |-> api_key[1]])
             /\ genai_calls' = genai_calls \o r.calls
             /\ IF r.result.raised /= None
                THEN Fail(r.result.raised[1])
                ELSE /\ pc' = "print_response"
                     /\ UNCHANGED <<error, console, exit_code>>
    /\ UNCHANGED <<command, config_file, config_args, config, provider_opt, model_opt,
                   env_key, active_provider, active_model, api_key, request, max_chars,
                   git_cmds, proc, diff_text, chunks, full_text, live, review_passed,
                   ignore_errors, peer>>

\* Mutant of PrintResponseChunk: the loop returns the verdict as soon as the
\* accumulated text is one that classifies as changes requested.
PrintResponseChunk_early(fragments, most) ==
    /\ pc = "print_response"
    /\ Len(chunks) < most
    /\ \E chunk \in fragments :
         /\ chunks' = Append(chunks, chunk)
         /\ full_text' = accumulate(full_text, chunk)
         /\ live' = IF chunk /= None THEN accumulate(full_text, chunk) ELSE live
         /\ IF classify(accumulate(full_text, chunk)).passed
            THEN UNCHANGED <<pc, review_passed>>
            ELSE review_passed' = Some(FALSE) /\ pc' = "review_exit"
    /\ UNCHANGED <<command, config_file, config_args, built_prompt, config,
                   provider_opt, model_opt, env_key, active_provider, active_model,
                   api_key, request, max_chars, git_cmds, proc, diff_text, sent,
                   genai_calls, ignore_errors, error, console, exit_code, peer>>

\* print_response: one iteration of the loop over the stream.
PrintResponseChunk(fragments, most) ==
    /\ pc = "print_response"
    /\ Len(chunks) < most
    /\ \E chunk \in fragments :
         /\ chunks' = Append(chunks, chunk)
         /\ full_text' = accumulate(full_text, chunk)
         /\ live' = IF chunk /= None THEN accumulate(full_text, chunk) ELSE live
    /\ UNCHANGED <<pc, command, config_file, config_args, built_prompt, config,
                   provider_opt, model_opt, env_key, active_provider, active_model,
                   api_key, request, max_chars, git_cmds, proc, diff_text, sent,
                   genai_calls, review_passed, ignore_errors, error, console,
                   exit_code, peer>>

\* print_response: the stream raises while the loop pulls the next fragment; the
\* exception leaves print_response and review_command and reaches main.
PrintResponseRaise ==
    /\ pc = "print_response"
    /\ Fail(OtherError(ErrText))
    /\ UNCHANGED <<command, config_file, config_args, built_prompt, config,
                   provider_opt, model_opt, env_key, active_provider, active_model,
                   api_key, request, max_chars, git_cmds, proc, diff_text, sent,
                   genai_calls, chunks, full_text, live, review_passed, ignore_errors,
                   peer>>

\* Mutant of PrintResponseEnd: each fragment is searched on its own.
PrintResponseEnd_per_fragment ==
    /\ pc = "print_response"
    /\ LET c == classify(full_text)
           hit == \E i \in 1..Len(chunks) :
                      chunks[i] /= None /\ ~classify(chunks[i][1]).passed
       IN  /\ review_passed' = Some(~hit)
           /\ console' = console \o <<"AI PR Review">> \o c.status
    /\ pc' = "review_exit"
    /\ UNCHANGED <<command, config_file, config_args, built_prompt, config,
                   provider_opt, model_opt, env_key, active_provider, active_model,
                   api_key, request, max_chars, git_cmds, proc, diff_text, sent,
                   genai_calls, chunks, full_text, live, ignore_errors, error,
                   exit_code, peer>>

\* print_response: the stream is exhausted; the panel, the classification, the return.
PrintResponseEnd ==
    /\ pc = "print_response"
    /\ LET c == classify(full_text)
       IN  /\ review_passed' = Some(c.passed)
           /\ console' = console \o <<"AI PR Review">> \o c.status
    /\ pc' = "review_exit"
    /\ UNCHANGED <<command, config_file, config_args, built_prompt, config,
                   provider_opt, model_opt, env_key, active_provider, active_model,
                   api_key, request, max_chars, git_cmds, proc, diff_text, sent,
                   genai_calls, chunks, full_text, live, ignore_errors, error,
                   exit_code, peer>>

\* review_command, lines 133-135.
ReviewExit ==
    /\ pc = "review_exit"
    /\ Exit(review_exit_code(ignore_errors, review_passed[1]))
    /\ UNCHANGED <<command, config_file, config_args, built_prompt, config,
                   provider_opt, model_opt, env_key, active_provider, active_model,
                   api_key, request, max_chars, git_cmds, proc, diff_text, sent,
                   genai_calls, chunks, full_text, live, review_passed, ignore_errors,
                   error, console, peer>>

\* Mutant of ConfigSet: the file is read again just before the assignment.
ConfigSet_reload(values) ==
    /\ pc = "config_set"
    /\ \E key \in ConfigKeys, value \in values, how \in SaveOutcomes :
         LET base == IF config_file.state = "ok" THEN config_file.content ELSE config[1]
             cfg == set_key(base, key, parsed_value(value))
             r == save_config(cfg, config_file, how)
         IN  /\ config_args' = Some([key |-> key, value |-> Some(value)])
             /\ config' = Some(cfg)
             /\ config_file' \in r.files
             /\ IF r.result.raised /= None
                THEN Propagate(r.result.raised[1])
                ELSE /\ console' = Append(console, "Configuration Updated")
                     /\ Exit(0)
                     /\ UNCHANGED error
    /\ UNCHANGED <<command, built_prompt, provider_opt, model_opt, env_key,
                   active_provider, active_model, api_key, request, max_chars,
                   git_cmds, proc, diff_text, sent, genai_calls, chunks, full_text,
                   live, review_passed, ignore_errors, peer>>

\* config_set: the assignment, save_config (called outside any try), the panel.
ConfigSet(values) ==
    /\ pc = "config_set"
    /\ \E key \in ConfigKeys, value \in values, how \in SaveOutcomes :
         LET cfg == set_key(config[1], key, parsed_value(value))
             r == save_config(cfg, config_file, how)
         IN  /\ config_args' = Some([key |-> key, value |-> Some(value)])
             /\ config' = Some(cfg)
             /\ config_file' \in r.files
             /\ IF r.result.raised /= None
                THEN Propagate(r.result.raised[1])
                ELSE /\ console' = Append(console, "Configuration Updated")
                     /\ Exit(0)
                     /\ UNCHANGED error
    /\ UNCHANGED <<command, built_prompt, provider_opt, model_opt, env_key,
                   active_provider, active_model, api_key, request, max_chars,
                   git_cmds, proc, diff_text, sent, genai_calls, chunks, full_text,
                   live, review_passed, ignore_errors, peer>>

\* config_unset: the warning for a key not found, or the del, save_config (called
\* outside any try) and the panel.
ConfigUnset ==
    /\ pc = "config_unset"
    /\ \E key \in ConfigKeys, how \in SaveOutcomes :
         /\ config_args' = Some([key |-> key, value |-> None])
         /\ IF ~key_found(config[1], key)
            THEN /\ console' = Append(console, "Warning")
                 /\ Exit(0)
                 /\ UNCHANGED <<config, config_file, error>>
            ELSE LET cfg == del_key(config[1], key)
                     r == save_config(cfg, config_file, how)
                 IN  /\ config' = Some(cfg)
                     /\ config_file' \in r.files
                     /\ IF r.result.raised /= None
                        THEN Propagate(r.result.raised[1])
                        ELSE /\ console' = Append(console, "Configuration Updated")
                             /\ Exit(0)
                             /\ UNCHANGED error
    /\ UNCHANGED <<command, built_prompt, provider_opt, model_opt, env_key,
                   active_provider, active_model, api_key, request, max_chars,
                   git_cmds, proc, diff_text, sent, genai_calls, chunks, full_text,
                   live, review_passed, ignore_errors, peer>>

----
\* A run of the program.

\* The variables a run has not assigned yet.
Unassigned ==
    /\ config = None
    /\ config_args = None
    /\ provider_opt = None
    /\ model_opt = None
    /\ env_key = None
    /\ active_provider = None
    /\ active_model = None
    /\ api_key = None
    /\ request = None
    /\ max_chars = None
    /\ git_cmds = <<>>
    /\ proc = None
    /\ built_prompt = None
    /\ sent = <<>>
    /\ genai_calls = <<>>
    /\ chunks = <<>>
    /\ full_text = <<>>
    /\ live = <<>>
    /\ review_passed = None
    /\ error = None
    /\ console = <<>>
    /\ exit_code = -1

\* The state of a process that has not run a step yet.
Fresh == pc = "cli" /\ diff_text = None /\ Unassigned

Init ==
    /\ command \in {"review", "diff"}
    /\ config_file \in ConfigFiles
    /\ ignore_errors \in (IF command = "review" THEN BOOLEAN ELSE {FALSE})
    /\ Fresh
    /\ peer = None

Next ==
    \/ Cli
    \/ ReviewResolve
    \/ ReviewGetDiff(ReviewRequests, ReviewMaxChars, ReviewRuns)
    \/ DiffCommand(ReviewRequests, ReviewMaxChars, ReviewRuns)
    \/ ReviewSend
    \/ PrintResponseChunk(ReviewFragments, MaxChunks)
    \/ PrintResponseRaise
    \/ PrintResponseEnd
    \/ ReviewExit

Spec == Init /\ [][Next]_vars

\* A process keeps running until it exits: the interpreter takes the next step of
\* the one thread whenever there is one.
FairSpec == Spec /\ WF_vars(Next)

----
\* The diff subcommand over all its scope options, limits and tool results.

InitDiff == Init /\ command = "diff"

NextDiff ==
    \/ Cli
    \/ DiffCommand(AllRequests, AllMaxChars, AllRuns)

SpecDiff == InitDiff /\ [][NextDiff]_vars

----
\* The config set and config unset subcommands.

InitConfig ==
    /\ command \in {"config_set", "config_unset"}
    /\ config_file \in ConfigFiles
    /\ ignore_errors = FALSE
    /\ Fresh
    /\ peer = None

NextConfig ==
    \/ Cli
    \/ ConfigSet(ConfigValues)
    \/ ConfigUnset

SpecConfig == InitConfig /\ [][NextConfig]_vars

----
\* Two invocations of config set / config unset at the same time.  Each is a
\* process of its own; they share the configuration file and nothing else.  The
\* process taking steps has its state in the variables, the other one in `peer`.

\* The VALUE arguments of the two invocations.
TextValues == {<<"v">>, <<"w">>}

\* The state of its own that a process running a config subcommand has.
Local(id) ==
    [id |-> id, pc |-> pc, command |-> command, config |-> config,
     config_args |-> config_args, error |-> error, console |-> console,
     exit_code |-> exit_code]

\* The operating system lets the other process run.
Switch ==
    /\ peer /= None
    /\ peer[1].pc /= "exit"
    /\ pc' = peer[1].pc
    /\ command' = peer[1].command
    /\ config' = peer[1].config
    /\ config_args' = peer[1].config_args
    /\ error' = peer[1].error
    /\ console' = peer[1].console
    /\ exit_code' = peer[1].exit_code
    /\ peer' = Some(Local(3 - peer[1].id))
    /\ UNCHANGED <<config_file, built_prompt, provider_opt, model_opt, env_key,
                   active_provider, active_model, api_key, request, max_chars,
                   git_cmds, proc, diff_text, sent, genai_calls, chunks, full_text,
                   live, review_passed, ignore_errors>>

InitConcurrent ==
    /\ command \in {"config_set", "config_unset"}
    /\ config_file \in ConfigFiles
    /\ ignore_errors = FALSE
    /\ Fresh
    /\ peer \in {Some([id |-> 2, pc |-> "cli", command |-> c, config |-> None,
                        config_args |-> None, error |-> None, console |-> <<>>,
                        exit_code |-> -1]) : c \in {"config_set", "config_unset"}}

NextConcurrent ==
    \/ Cli
    \/ ConfigSet(TextValues)
    \/ ConfigUnset
    \/ Switch

SpecConcurrent == InitConcurrent /\ [][NextConcurrent]_vars

----
\* make_prompt on its own, over diffs of every kind.

\* The diff texts handed to make_prompt.
PromptTexts ==
    {t \o u : t \in Texts({" ", "\n", "a"}, MaxDiffLen),
              u \in {<<>>, MAKE_CHANGES, APPROVED, Conclusion \o APPROVED, header}}

InitPrompt ==
    /\ pc = "make_prompt"
    /\ command = "review"
    /\ config_file = [state |-> "absent"]
    /\ ignore_errors = FALSE
    /\ diff_text \in {Some(d) : d \in PromptTexts}
    /\ Unassigned
    /\ peer = None

\* review_command line 116: the call of make_prompt.
MakePrompt ==
    /\ pc = "make_prompt"
    /\ built_prompt' = Some(make_prompt(diff_text[1]))
    /\ pc' = "review_send"
    /\ UNCHANGED <<command, config_file, config, config_args, provider_opt, model_opt,
                   env_key, active_provider, active_model, api_key, request, max_chars,
                   git_cmds, proc, diff_text, sent, genai_calls, chunks, full_text,
                   live, review_passed, ignore_errors, error, console, exit_code,
                   peer>>

NextPrompt == MakePrompt

SpecPrompt == InitPrompt /\ [][NextPrompt]_vars

----
\* print_response over richer streams: the run starts where review_command calls
\* print_response, after a dispatch to gemini that opened the stream.

InitResponse ==
    LET cfg == DEFAULT_CONFIG
        env == [name |-> upper(gemini) \o <<"_", "A", "P", "I", "_", "K", "E", "Y">>,
                value |-> Some(<<"e">>)]
        req == Request(FALSE, FALSE, None, None, None)
        run == [kind |-> "ok", stdout |-> <<"a">>]
        got == get_git_diff(req, None, run)
        text == make_prompt(got.result.value)
    IN  /\ pc = "print_response"
        /\ command = "review"
        /\ config_file = [state |-> "absent"]
        /\ ignore_errors \in BOOLEAN
        /\ config = Some(cfg)
        /\ config_args = None
        /\ provider_opt = None
        /\ model_opt = None
        /\ env_key = Some(env)
        /\ active_provider = Some(gemini)
        /\ active_model = Some(default_model)
        /\ api_key = Some(<<"e">>)
        /\ request = Some(req)
        /\ max_chars = None
        /\ git_cmds = <<got.cmd>>
        /\ proc = Some(run)
        /\ diff_text = Some(got.result.value)
        /\ built_prompt = Some(text)
        /\ sent = <<[prompt |-> text, provider |-> gemini, model |-> default_model,
                     api_key |-> <<"e">>]>>
        /\ genai_calls = send_to_gemini(text, <<"e">>, default_model, "ok").calls
        /\ chunks = <<>>
        /\ full_text = <<>>
        /\ live = <<>>
        /\ review_passed = None
        /\ error = None
        /\ console = <<>>
        /\ exit_code = -1
        /\ peer = None

NextResponse ==
    \/ PrintResponseChunk(ResponseFragments, MaxResponseChunks)
    \/ PrintResponseRaise
    \/ PrintResponseEnd
    \/ ReviewExit

SpecResponse == InitResponse /\ [][NextResponse]_vars

----
\* The claims.

\* Whether text holds MAKE CHANGES with each letter in either case.
MentionsMakeChanges(text) ==
    LET small == <<"m", "a", "k", "e", " ", "c", "h", "a", "n", "g", "e", "s">>
    IN  \E i \in 1..Len(text) :
            /\ i + 11 <= Len(text)
            /\ \A j \in 1..12 : text[i + j - 1] \in {MAKE_CHANGES[j], small[j]}

\* Whether text is empty or holds whitespace only.
IsBlank(text) == \A i \in 1..Len(text) : text[i] \in {" ", "\n", "\t", "\r"}

\* C1: once print_response has returned, its verdict is ChangesRequested (False)
\* exactly when the accumulated document holds MAKE CHANGES in any letter case, and
\* Approved (True) otherwise, the empty document included.
C1_Verdict ==
    review_passed /= None => (review_passed[1] <=> ~MentionsMakeChanges(full_text))

\* C1 witness: a document rejected although it holds no upper-case MAKE CHANGES.
C1_Witness ==
    /\ review_passed = Some(FALSE)
    /\ ~Contains(full_text, MAKE_CHANGES)

\* C2: a review run that consumed the whole stream exits 0 when the verdict is
\* Approved, 1 when it is ChangesRequested without --ignore-errors, and 0 when it is
\* ChangesRequested with --ignore-errors.
C2_ExitCodeMapping ==
    (pc = "exit" /\ review_passed /= None)
        => exit_code = (IF review_passed[1] THEN 0 ELSE IF ignore_errors THEN 0 ELSE 1)

\* C2 witness: changes requested, --ignore-errors given, exit code 0.
C2_Witness ==
    /\ pc = "exit"
    /\ review_passed = Some(FALSE)
    /\ ignore_errors
    /\ exit_code = 0

\* C3: whenever the diff text get_git_diff returned to review_command is empty or
\* whitespace-only, the run has ended with exit code 0 and send_to_provider was
\* never called.
C3_EmptyDiffShortCircuit ==
    (command = "review" /\ diff_text /= None /\ IsBlank(diff_text[1]))
        => (pc = "exit" /\ exit_code = 0 /\ sent = <<>> /\ genai_calls = <<>>)

\* C3 witness: a review run whose diff is a single space has ended.
C3_Witness ==
    /\ command = "review"
    /\ diff_text = Some(<<" ">>)
    /\ pc = "exit"

\* An option counts as given when it holds a non-empty value.
Given(o) == o /= None /\ Len(o[1]) > 0

HasRange(c) == \E i \in 1..(Len(c) - 1) : c[i] = "." /\ c[i + 1] = "."

\* The arguments after `git diff` that the precedence table gives a request.
ExpectedArgs(req) ==
    IF req.staged THEN << <<"-", "-", "c", "a", "c", "h", "e", "d">> >>
    ELSE IF Given(req.file) THEN << <<"-", "-">>, req.file[1] >>
    ELSE IF Given(req.commit)
    THEN IF HasRange(req.commit[1]) THEN <<req.commit[1]>>
         ELSE <<req.commit[1] \o <<"^", ".", ".">> \o req.commit[1]>>
    ELSE IF Given(req.diff_args) THEN req.diff_args[1]
    ELSE IF ~req.unstaged THEN << <<"-", "-", "c", "a", "c", "h", "e", "d">> >>
    ELSE <<>>

\* C4: the command handed to subprocess.run is `git diff` followed by exactly the
\* arguments of the first matching rule of the precedence table (staged, file,
\* commit, raw arguments, default), for every combination of the scope options.
C4_DiffCommand ==
    git_cmds /= <<>>
        => /\ Len(git_cmds) = 1
           /\ SubSeq(git_cmds[1], 1, 2) = << <<"g", "i", "t">>, <<"d", "i", "f", "f">> >>
           /\ SubSeq(git_cmds[1], 3, Len(git_cmds[1])) = ExpectedArgs(request[1])

\* C4 witness: a single commit, given together with raw arguments and --unstaged,
\* becomes <commit>^..<commit>.
C4_Witness ==
    /\ git_cmds /= <<>>
    /\ ~request[1].staged /\ request[1].unstaged
    /\ ~Given(request[1].file)
    /\ request[1].commit = Some(<<"c">>)
    /\ Given(request[1].diff_args)
    /\ git_cmds[1][3] = <<"c", "^", ".", ".", "c">>

\* C5: every run ended by a failure of the provider call (an exception after
\* send_to_provider was called, raised when the call is opened or while the stream
\* is read) exits with code 4.
C5_ProviderFailureExits4 ==
    (pc = "exit" /\ error /= None /\ sent /= <<>>) => exit_code = 4

\* The diff tool returned a diff with something to review.
DiffToReview == diff_text /= None /\ ~IsBlank(diff_text[1])

\* C6 as stated: a review run whose resolved provider is not gemini makes no client
\* call and exits with code 4, whatever the credentials and the diff.
C6_NonGeminiAlwaysExits4 ==
    (command = "review" /\ active_provider /= None /\ active_provider[1] /= gemini)
        => /\ genai_calls = <<>>
           /\ pc = "exit" => exit_code = 4

\* C6 amended: a review run whose resolved provider is not gemini makes no client
\* call and never reads a stream; it exits with code 4 when a key was found and the
\* diff tool returned a diff that is not blank.
C6_NonGemini ==
    (command = "review" /\ active_provider /= None /\ active_provider[1] /= gemini)
        => /\ genai_calls = <<>>
           /\ chunks = <<>>
           /\ pc /= "print_response"
           /\ (api_key[1] /= <<>> /\ DiffToReview /\ pc = "exit") => exit_code = 4

\* C6 witness: a run with an unknown provider name has ended with exit code 4.
C6_Witness ==
    /\ command = "review"
    /\ active_provider = Some(other_provider)
    /\ pc = "exit"
    /\ exit_code = 4
    /\ sent /= <<>>

NotYetImplemented ==
    <<"n", "o", "t", " ", "y", "e", "t", " ", "i", "m", "p", "l", "e", "m", "e", "n",
      "t", "e", "d">>

UnknownProvider ==
    <<"U", "n", "k", "n", "o", "w", "n", " ", "p", "r", "o", "v", "i", "d", "e", "r">>

\* C7: after send_to_provider was called, provider openai or anthropic has raised a
\* 'not yet implemented' error with exit code 4, any name other than gemini, openai
\* and anthropic an 'Unknown provider' error with exit code 4, in none of these cases
\* was the Gemini client called, and for gemini it was.
C7_Dispatch ==
    sent /= <<>>
        => LET p == sent[1].provider
           IN  /\ p \in {openai, anthropic}
                    => /\ error /= None
                       /\ error[1].type = "PrReviewError"
                       /\ error[1].exit_code = 4
                       /\ Contains(error[1].message, NotYetImplemented)
               /\ p \notin {gemini, openai, anthropic}
                    => /\ error /= None
                       /\ error[1].type = "PrReviewError"
                       /\ error[1].exit_code = 4
                       /\ Contains(error[1].message, UnknownProvider)
                       /\ ~Contains(error[1].message, NotYetImplemented)
               /\ p /= gemini => genai_calls = <<>>
               /\ p = gemini => (genai_calls /= <<>> /\ genai_calls[1].op = "configure")

\* C7 witness: send_to_provider was called for anthropic and raised.
C7_Witness ==
    /\ sent /= <<>>
    /\ sent[1].provider = anthropic
    /\ error /= None

\* No key for the resolved provider: the environment variable is unset or empty and
\* the configuration has no entry, or an empty one.
KeyAbsent ==
    /\ env_key /= None
    /\ (env_key[1].value = None \/ env_key[1].value = Some(<<>>))
    /\ LET keys == IF "api_keys" \in DOMAIN config[1] THEN config[1].api_keys ELSE <<>>
       IN  active_provider[1] \in DOMAIN keys => keys[active_provider[1]] = <<>>

\* C8: when no key is found for the resolved provider, the review run has ended with
\* a non-zero exit code, and neither the diff tool nor the provider was called.
C8_MissingKey ==
    (command = "review" /\ KeyAbsent)
        => /\ pc = "exit"
           /\ exit_code > 0
           /\ git_cmds = <<>>
           /\ sent = <<>>
           /\ genai_calls = <<>>

\* C8 witness: a run that found no key for openai has ended.
C8_Witness ==
    /\ command = "review"
    /\ KeyAbsent
    /\ active_provider = Some(openai)
    /\ pc = "exit"

\* C9: a review run that finds no key for the resolved provider exits with code 4.
C9_MissingKeyExits4 ==
    (command = "review" /\ KeyAbsent /\ pc = "exit") => exit_code = 4

\* The diff tool exited with a non-zero status.
GitFailed == proc /= None /\ proc[1].kind = "CalledProcessError"

\* Whether message contains s without its leading and trailing whitespace.
ContainsTrimmed(message, s) ==
    \E i \in 1..(Len(s) + 1), j \in 0..Len(s) :
        LET t == SubSeq(s, i, j)
        IN  /\ IsBlank(SubSeq(s, 1, i - 1))
            /\ IsBlank(SubSeq(s, j + 1, Len(s)))
            /\ t /= <<>> => (~IsBlank(<<t[1]>>) /\ ~IsBlank(<<t[Len(t)]>>))
            /\ Contains(message, t)

\* The run ended with the Git error of exit code 3, before any prompt or provider.
EndedWithGitError ==
    /\ pc = "exit"
    /\ exit_code = 3
    /\ error /= None
    /\ error[1].type = "PrReviewError"
    /\ error[1].exit_code = 3
    /\ sent = <<>>
    /\ genai_calls = <<>>

\* C10 as stated: when the diff tool exits non-zero, the review or diff command has
\* ended with the error of exit code 3 whose message contains the tool's stderr
\* text, without a prompt or a provider call.
C10_GitErrorHoldsStderr ==
    GitFailed => (EndedWithGitError /\ Contains(error[1].message, proc[1].stderr))

\* C10 amended: ... whose message contains the tool's stderr text without its
\* leading and trailing whitespace ...
C10_GitError ==
    GitFailed
        => /\ EndedWithGitError
           /\ ContainsTrimmed(error[1].message, proc[1].stderr)

\* C10 witness: a review run whose diff tool failed with stderr ending in a line
\* break has ended.
C10_Witness ==
    /\ command = "review"
    /\ GitFailed
    /\ proc[1].stderr = <<"x", "\n">>
    /\ pc = "exit"

\* The run ended because load_config raised.
LoadFailed == pc = "exit" /\ config = None /\ error /= None

\* The run ended because save_config raised during config set or config unset.
SaveFailed == pc = "exit" /\ config_args /= None /\ error /= None

\* C11: a run whose configuration file exists but cannot be read or parsed has
\* exited with code 2 before its subcommand ran, and a run of config set or config
\* unset whose write of the configuration failed has exited with code 2.
C11_ConfigErrorsExit2 ==
    /\ LoadFailed => (exit_code = 2 /\ config_args = None)
    /\ SaveFailed => exit_code = 2

\* The stream was read to its end: print_response returned a verdict.
StreamConsumed == review_passed /= None

\* The three cases in which a review run may exit with code 0.
ZeroExitCase ==
    \/ diff_text /= None /\ IsBlank(diff_text[1])
    \/ StreamConsumed /\ review_passed[1]
    \/ StreamConsumed /\ ~review_passed[1] /\ ignore_errors

\* The run ended by a failure of the provider call, at its opening or in its stream.
ProviderFailed == pc = "exit" /\ error /= None /\ sent /= <<>>

\* C12: a review run exits with code 0 only when the diff was empty or whitespace,
\* or the stream was consumed and the verdict was Approved, or the stream was
\* consumed, the verdict was ChangesRequested and --ignore-errors was given; with
\* --ignore-errors a diff-tool failure still exits 3 and a provider failure still
\* exits 4.
C12_ExitZeroOnly ==
    (command = "review" /\ pc = "exit")
        => /\ exit_code = 0 => ZeroExitCase
           /\ (ignore_errors /\ GitFailed) => exit_code = 3
           /\ (ignore_errors /\ ProviderFailed) => exit_code = 4

\* The run was ended by an exception that is not one of the program's error kinds.
UnknownFailure == pc = "exit" /\ error /= None /\ error[1].type /= "PrReviewError"

\* C13: every run, its stream being finite, reaches the terminal state; the exit
\* code is set once, on reaching it, to a value of {0, 1, 2, 3, 4}, and is 1 when
\* the run was ended by a failure of no known kind, caught in main.
C13_Terminates ==
    /\ <>(pc = "exit")
    /\ [](pc = "exit" <=> exit_code \in 0..4)
    /\ [](pc /= "exit" => exit_code = -1)
    /\ [][pc = "exit" => exit_code' = exit_code]_vars
    /\ [](UnknownFailure => exit_code = 1)

\* C13 witness: a run ended by the operating system refusing to start the diff tool.
C13_Witness ==
    /\ UnknownFailure
    /\ proc /= None
    /\ proc[1].kind = "OSError"
    /\ exit_code = 1

\* The texts of the fragments cs that carry one, joined in the order of cs.
RECURSIVE JoinedTexts(_)
JoinedTexts(cs) ==
    IF cs = <<>> THEN <<>>
    ELSE JoinedTexts(SubSeq(cs, 1, Len(cs) - 1))
             \o (IF cs[Len(cs)] = None THEN <<>> ELSE cs[Len(cs)][1])

\* C14: the accumulated document is the concatenation, in arrival order, of the
\* text of exactly the fragments that carry text; pulling a fragment without text
\* leaves the document as it was, raises no error and leaves the loop running.
C14_Aggregation ==
    /\ [](full_text = JoinedTexts(chunks))
    /\ [][(chunks' /= chunks /\ chunks'[Len(chunks')] = None)
             => (full_text' = full_text /\ error' = None /\ pc' = "print_response")]_vars

\* C14 witness: a fragment without text arrived between two fragments with text and
\* the document is the two texts joined.
C14_Witness ==
    /\ chunks = <<Some(<<"M", "A", "K", "E", " ">>), None,
                  Some(<<"C", "H", "A", "N", "G", "E", "S">>)>>
    /\ full_text = MAKE_CHANGES
    /\ error = None

\* The diff tool succeeded with more output than the positive --max-chars allows.
OverLimit ==
    /\ proc /= None
    /\ proc[1].kind = "ok"
    /\ max_chars /= None
    /\ max_chars[1] > 0
    /\ max_chars[1] < Len(proc[1].stdout)

\* The truncation notice that states M as the limit and L as the original size.
Notice(M, L) ==
    <<"\n", "\n">>
    \o <<"[", "D", "i", "f", "f", " ", "t", "r", "u", "n", "c", "a", "t", "e", "d", " ",
         "t", "o", " ">> \o IntStr(M) \o <<" ", "c", "h", "a", "r", "a", "c", "t", "e", "r",
         "s", ".", " ">>
    \o <<"O", "r", "i", "g", "i", "n", "a", "l", " ", "s", "i", "z", "e", ":", " ">>
    \o IntStr(L) \o <<" ", "c", "h", "a", "r", "a", "c", "t", "e", "r", "s", "]">>

\* C15: when the diff tool's output has length L and the positive limit M is below
\* L, the text get_git_diff returned is the first M characters of the output
\* followed by the truncation notice, its length is M plus the length of the
\* notice, and the notice states M and the original length L.
C15_Truncation ==
    OverLimit
        => LET M == max_chars[1]
               out == proc[1].stdout
               L == Len(out)
           IN  /\ diff_text /= None
               /\ Len(diff_text[1]) = M + Len(Notice(M, L))
               /\ \A i \in 1..M : diff_text[1][i] = out[i]
               /\ SubSeq(diff_text[1], M + 1, Len(diff_text[1])) = Notice(M, L)

\* C15 witness: an output of two characters cut to its first one.
C15_Witness ==
    /\ OverLimit
    /\ proc[1].stdout = <<"a", " ">>
    /\ max_chars = Some(1)
    /\ diff_text /= None
    /\ diff_text[1][1] = "a"
    /\ Len(diff_text[1]) > 2

\* C16: the prompt built from diff d is one constant header followed by d itself:
\* the prompt ends with d unchanged, what precedes d is the same header for every
\* d, and so the prompt is determined by d alone; d may be empty, blank or hold
\* APPROVED or MAKE CHANGES.
C16_Prompt ==
    (built_prompt /= None /\ diff_text /= None)
        => LET p == built_prompt[1]
               d == diff_text[1]
               n == Len(p) - Len(d)
           IN  /\ n >= 0
               /\ SubSeq(p, n + 1, Len(p)) = d
               /\ SubSeq(p, 1, n) = header

\* C16 witness: the prompt of a diff that starts with a line break and ends with
\* MAKE CHANGES was built.
C16_Witness ==
    /\ built_prompt /= None
    /\ diff_text = Some(<<"\n", "a">> \o MAKE_CHANGES)
    /\ built_prompt[1][Len(built_prompt[1])] = "S"

\* The value of an option that was given (a given option has a non-empty value).
FlagGiven(opt) == opt /= None /\ Len(opt[1]) > 0

\* The entry of the configuration for `key`, when there is one.
Configured(key) == key \in DOMAIN config[1]

\* The key the configuration file stores for provider p, empty when it stores none.
StoredKey(p) ==
    IF Configured("api_keys") /\ p \in DOMAIN config[1].api_keys
    THEN config[1].api_keys[p]
    ELSE <<>>

\* C17: once a review run has resolved its credentials, the provider and the model
\* are each the option's value when the option was given, else the configuration
\* file's value when it has one, else the built-in default; the API key is the
\* value of the environment variable <PROVIDER>_API_KEY of the resolved provider
\* when that is set and not empty, else the configuration file's api_keys entry for
\* the resolved provider.
C17_Resolution ==
    active_provider /= None
        => /\ active_provider[1] =
                  (IF FlagGiven(provider_opt) THEN provider_opt[1]
                   ELSE IF Configured("provider") THEN config[1].provider
                   ELSE gemini)
           /\ active_model[1] =
                  (IF FlagGiven(model_opt) THEN model_opt[1]
                   ELSE IF Configured("model") THEN config[1].model
                   ELSE default_model)
           /\ env_key[1].name
                  = upper(active_provider[1]) \o <<"_", "A", "P", "I", "_", "K", "E", "Y">>
           /\ api_key[1] =
                  (IF env_key[1].value /= None /\ Len(env_key[1].value[1]) > 0
                   THEN env_key[1].value[1]
                   ELSE StoredKey(active_provider[1]))

\* C17 witness: the option named gemini while the file named openai, and the
\* environment held a key while the file stored another for gemini: the option and
\* the environment won.
C17_Witness ==
    /\ provider_opt = Some(gemini)
    /\ config /= None
    /\ Configured("provider")
    /\ config[1].provider = openai
    /\ StoredKey(gemini) = <<"k">>
    /\ env_key /= None
    /\ env_key[1].value = Some(<<"e">>)
    /\ active_provider = Some(gemini)
    /\ api_key = Some(<<"e">>)

\* How many calls of the Gemini client were of operation op.
ClientCalls(op) == Cardinality({i \in 1..Len(genai_calls) : genai_calls[i].op = op})

\* The external calls made so far: the diff tool, the provider, the stream's fragments.
ExternalCalls == <<git_cmds, sent, genai_calls, chunks>>

\* C18: nothing is retried.  The diff tool is run at most once, the provider call
\* is opened at most once and its stream is read at most once (the loop over the
\* stream is never entered again once it was left); a failure ends the run at
\* once, and a run that has ended makes no further external call.
C18_NoRetries ==
    /\ [](Len(git_cmds) <= 1)
    /\ [](Len(sent) <= 1 /\ ClientCalls("generate_content") <= 1)
    /\ [][pc' = "print_response" => pc \in {"review_send", "print_response"}]_vars
    /\ [][pc = "review_send" => pc' /= "review_send"]_vars
    /\ [](error /= None => pc = "exit")
    /\ [][pc = "exit" => (pc' = "exit" /\ ExternalCalls' = ExternalCalls)]_vars

\* C18 witness: the provider call failed when it was opened, after one run of the
\* diff tool and one send, and the run has ended.
C18_Witness ==
    /\ pc = "exit"
    /\ error /= None
    /\ Len(git_cmds) = 1
    /\ Len(sent) = 1
    /\ ClientCalls("generate_content") = 1
    /\ chunks = <<>>

StartsWith(s, prefix) == Len(s) >= Len(prefix) /\ SubSeq(s, 1, Len(prefix)) = prefix

\* What a caller of send_to_provider can read off the raised error e: the error of
\* a provider that is not implemented, of an unknown provider, of a failed call.
IsUnimplemented(e) ==
    /\ e.type = "PrReviewError"
    /\ \E p \in {<<"O", "p", "e", "n", "A", "I">>,
                 <<"A", "n", "t", "h", "r", "o", "p", "i", "c">>} :
           e.message = p \o <<" ", "p", "r", "o", "v", "i", "d", "e", "r", " ">>
                         \o NotYetImplemented

IsUnknown(e) ==
    /\ e.type = "PrReviewError"
    /\ StartsWith(e.message, UnknownProvider \o <<":", " ">>)

IsCallFailure(e) ==
    /\ e.type = "PrReviewError"
    /\ StartsWith(e.message, <<"E", "r", "r", "o", "r", " ", "w", "i", "t", "h", " ", "A",
                               "I", " ", "p", "r", "o", "v", "i", "d", "e", "r", " ">>)

ClientCalledAsResolved ==
    \A i \in 1..Len(genai_calls) :
        LET c == genai_calls[i]
        IN  IF c.op = "configure" THEN c.api_key = api_key[1]
            ELSE c.model = active_model[1] /\ c.prompt = built_prompt[1] /\ c.stream

\* C20: in a review run the credentials are resolved before the diff tool is run,
\* the diff is acquired before the prompt is built, the prompt is built before the
\* dispatch, the dispatch has returned before the stream is read, and the exit code
\* of a run that dispatched without error is decided only after the stream was read
\* to its end; the prompt passed to the provider is make_prompt of the text
\* get_git_diff returned (truncation included), and the provider is called with the
\* resolved provider, model and key.
C20_PipelineOrder ==
    command = "review"
        => /\ git_cmds /= <<>>
                => (active_provider /= None /\ active_model /= None /\ api_key /= None)
           /\ built_prompt /= None
                => /\ diff_text /= None
                   /\ built_prompt[1] = header \o diff_text[1]
                   /\ OverLimit => SubSeq(built_prompt[1], Len(header) + max_chars[1] + 1,
                                          Len(built_prompt[1]))
                                       = Notice(max_chars[1], Len(proc[1].stdout))
           /\ sent /= <<>>
                => /\ built_prompt /= None
                   /\ sent = <<[prompt |-> built_prompt[1],
                                provider |-> active_provider[1],
                                model |-> active_model[1],
                                api_key |-> api_key[1]]>>
                   /\ ClientCalledAsResolved
           /\ genai_calls /= <<>> => sent /= <<>>
           /\ (pc = "print_response" \/ chunks /= <<>>)
                => /\ sent /= <<>>
                   /\ ClientCalls("generate_content") = 1
           /\ pc \in {"review", "review_diff", "review_send", "print_response",
                      "review_exit"}
                => (exit_code = -1 /\ error = None)
           /\ review_passed /= None => pc \in {"review_exit", "exit"}
           /\ (pc = "exit" /\ sent /= <<>> /\ error = None) => review_passed /= None

\* C20 witness: a run went through every stage with a truncated diff and has exited.
C20_Witness ==
    /\ command = "review"
    /\ pc = "exit"
    /\ OverLimit
    /\ sent /= <<>>
    /\ Len(genai_calls) = 2
    /\ chunks /= <<>>
    /\ review_passed /= None
    /\ active_provider = Some(gemini)
    /\ active_model = Some(other_model)

\* The status lines print_response can print.
StatusLines == {"Review failed: Changes requested", "Review passed: Approved"}

\* The status lines printed so far.
PrintedStatus == {console[i] : i \in 1..Len(console)} \cap StatusLines

\* C21: while print_response is still reading the stream there is no verdict, no
\* status line and no exit code, whatever the text accumulated so far; the verdict
\* is produced by the step that finds the stream exhausted, which reads no
\* fragment, and once produced it never changes.
C21_VerdictTiming ==
    /\ [](pc = "print_response"
            => (review_passed = None /\ exit_code = -1 /\ PrintedStatus = {}))
    /\ [][review_passed' /= review_passed
            => /\ review_passed = None
               /\ pc = "print_response"
               /\ pc' = "review_exit"
               /\ chunks' = chunks
               /\ full_text' = full_text]_vars
    /\ [](pc = "review_exit" => review_passed /= None)

\* C21 witness: the stream is still being read and the text accumulated so far
\* already holds MAKE CHANGES.
C21_Witness ==
    /\ pc = "print_response"
    /\ chunks /= <<>>
    /\ Contains(upper(full_text), MAKE_CHANGES)
    /\ review_passed = None
    /\ exit_code = -1

\* A file path, a commit spec or raw arguments were supplied with the request.
ScopeSupplied(req) == Given(req.file) \/ Given(req.commit) \/ Given(req.diff_args)

\* The arguments that scope the diff by the file, the commit or the raw arguments.
ScopedArgs(req) ==
    IF Given(req.file) THEN << <<"-", "-">>, req.file[1] >>
    ELSE IF Given(req.commit)
    THEN IF HasRange(req.commit[1]) THEN <<req.commit[1]>>
         ELSE <<req.commit[1] \o <<"^", ".", ".">> \o req.commit[1]>>
    ELSE req.diff_args[1]

Cached == <<"-", "-", "c", "a", "c", "h", "e", "d">>

\* The arguments of the command that was run, after `git diff`.
RunArgs == SubSeq(git_cmds[1], 3, Len(git_cmds[1]))

\* C22 as stated: whenever a file path, a commit spec or raw arguments are
\* supplied, for every value of the staged and unstaged flags, the command is
\* scoped by them alone and does not hold --cached.
C22_ScopeOverFlags ==
    (git_cmds /= <<>> /\ ScopeSupplied(request[1]))
        => /\ RunArgs = ScopedArgs(request[1])
           /\ \A i \in 1..Len(git_cmds[1]) : git_cmds[1][i] /= Cached

\* C22 amended: exactly one scope applies to a request.  When the staged flag is
\* set the command is `git diff --cached`, whatever else is supplied; when it is
\* not set and a file path, a commit spec or raw arguments are supplied, then for
\* either value of the unstaged flag the command is scoped by them alone and the
\* staged/unstaged selection adds no --cached.
C22_ScopePrecedence ==
    git_cmds /= <<>>
        => /\ request[1].staged => RunArgs = <<Cached>>
           /\ (~request[1].staged /\ ScopeSupplied(request[1]))
                => /\ RunArgs = ScopedArgs(request[1])
                   /\ \A i \in 1..Len(git_cmds[1]) : git_cmds[1][i] /= Cached

\* C22 witness: a file path was supplied without --staged and without --unstaged,
\* and the command is scoped by the path, not by the default to staged changes.
C22_Witness ==
    /\ git_cmds /= <<>>
    /\ ~request[1].staged
    /\ ~request[1].unstaged
    /\ request[1].file = Some(<<"f">>)
    /\ git_cmds[1] = << <<"g", "i", "t">>, <<"d", "i", "f", "f">>, <<"-", "-">>, <<"f">> >>

\* Documents with and without a Conclusion line, with and without MAKE CHANGES.
Documents ==
    {d \o e : d \in {<<>>, Conclusion \o APPROVED, Conclusion \o MAKE_CHANGES},
              e \in {<<>>, MAKE_CHANGES, <<"o", "k", "\n">>,
                     <<"m", "a", "k", "e", " ", "c", "h", "a", "n", "g", "e", "s">>}}

\* C23: presentation does not touch the result.  The Live display only mirrors
\* the accumulated text, which after each fragment is the text before followed by
\* the fragment's text; the step that prints the panel and the status line leaves
\* the text as it was; and the verdict is the one any document gets that agrees
\* with the accumulated text on holding MAKE CHANGES in any letter case, whether
\* or not either of the two holds a Conclusion line.
C23_PresentationFrame ==
    /\ [](live = full_text)
    /\ [][chunks' /= chunks
            => LET c == chunks'[Len(chunks')]
               IN  full_text' = full_text \o (IF c = None THEN <<>> ELSE c[1])]_vars
    /\ [][review_passed' /= review_passed
            => (full_text' = full_text /\ live' = live)]_vars
    /\ [](review_passed /= None
            => \A t \in Documents :
                   (MentionsMakeChanges(t) <=> MentionsMakeChanges(full_text))
                       => classify(t).passed = review_passed[1])

\* C23 witness: a document with the line Conclusion: APPROVED followed by MAKE
\* CHANGES was shown, and its verdict is the one of MAKE CHANGES.
C23_Witness ==
    /\ chunks = <<Some(Conclusion), Some(APPROVED), Some(MAKE_CHANGES)>>
    /\ live = Conclusion \o APPROVED \o MAKE_CHANGES
    /\ review_passed = Some(FALSE)

\* C24: the accumulated text only grows at its end: after every step it starts
\* with the text it was before the step, and once the loop over the stream has
\* been left it is not changed any more, so the text that is classified is the
\* text accumulated when the stream ended.
C24_MonotoneAccumulation ==
    /\ [][StartsWith(full_text', full_text)]_vars
    /\ [][pc /= "print_response" => full_text' = full_text]_vars
    /\ [][pc' /= "print_response" => full_text' = full_text]_vars

\* C24 witness: two fragments with text were accumulated one after the other and
\* the stream has ended.
C24_Witness ==
    /\ pc = "review_exit"
    /\ chunks = <<Some(<<"o", "k", "\n">>), Some(APPROVED)>>
    /\ full_text = <<"o", "k", "\n">> \o APPROVED

\* The diff tool succeeded and --max-chars is not given or not exceeded.
WithinLimit ==
    /\ proc /= None
    /\ proc[1].kind = "ok"
    /\ (max_chars = None \/ Len(proc[1].stdout) <= max_chars[1])

\* C25: when the diff tool succeeded and --max-chars is not given, or is given
\* and the output is not longer than it, the text get_git_diff returned is the
\* tool's output itself: nothing removed, no notice appended.
C25_NoTruncation ==
    WithinLimit => diff_text = Some(proc[1].stdout)

\* C25 witness: an output exactly as long as the limit was returned as it is.
C25_Witness ==
    /\ WithinLimit
    /\ max_chars = Some(2)
    /\ proc[1].stdout = <<"a", "\n">>
    /\ diff_text = Some(<<"a", "\n">>)

\* The keys a configuration of the model can hold.
ConfigPaths == ConfigKeys \cup {<<"api_keys", anthropic>>, <<"api_keys", other_provider>>}

\* The value configuration cfg holds under the key `parts`, None when it holds none.
Entry(cfg, parts) ==
    IF Len(parts) = 1
    THEN IF parts[1] \in DOMAIN cfg THEN Some(cfg[parts[1]]) ELSE None
    ELSE IF parts[1] \in DOMAIN cfg /\ parts[2] \in DOMAIN cfg[parts[1]]
         THEN Some(cfg[parts[1]][parts[2]])
         ELSE None

\* What the change asked for by `args` leaves under its key: the value set, as
\* config set stores it, or nothing after an unset.
Asked(args) == IF args.value = None THEN None ELSE Some(parsed_value(args.value[1]))

\* C26: config set and config unset are an unprotected read-modify-write.  The
\* step in which a process saves writes a file that holds, under the key of its
\* change, what the change asked for and, under every other key, what the process
\* loaded when it started, whatever the file held just before the write.
C26_ReadModifyWrite ==
    [][(/\ pc \in {"config_set", "config_unset"}
        /\ pc' = "exit"
        /\ exit_code' = 0
        /\ console' = Append(console, "Configuration Updated"))
          => /\ config_file'.state = "ok"
             /\ \A k \in ConfigPaths :
                    Entry(config_file'.content, k)
                        = (IF k = config_args'[1].key THEN Asked(config_args'[1])
                           ELSE Entry(config[1], k))]_vars

\* Process state l is that of an invocation that saved its change and exited 0.
Updated(l) ==
    /\ l.pc = "exit"
    /\ l.exit_code = 0
    /\ l.config_args /= None
    /\ l.console = <<"Configuration Updated">>

\* The file holds what the change `args` asked for.
Reflected(args) ==
    Entry(config_file.content, args.key) = Asked(args)

\* C26 witness, the lost update: two invocations changed different keys, both
\* saved and exited 0, and the file holds the change of one and not of the other.
C26_Witness ==
    /\ peer /= None
    /\ Updated(Local(0))
    /\ Updated(peer[1])
    /\ config_file.state = "ok"
    /\ config_args[1].key /= peer[1].config_args[1].key
    /\ Reflected(config_args[1])
    /\ ~Reflected(peer[1].config_args[1])

\* What print_response accumulates from the fragments cs.
RECURSIVE Accumulated(_)
Accumulated(cs) ==
    IF cs = <<>> THEN <<>>
    ELSE accumulate(Accumulated(SubSeq(cs, 1, Len(cs) - 1)), cs[Len(cs)])

\* Other ways the document of the run could have arrived: in one fragment, or in
\* at most two fragments of the kinds drawn.
OtherStreams ==
    {<<Some(JoinedTexts(chunks))>>}
    \cup {<<a>> : a \in ResponseFragments}
    \cup {<<a, b>> : a \in ResponseFragments, b \in ResponseFragments}

\* C27: the verdict depends on the concatenated text only: it is the verdict of
\* every other stream whose fragments' texts join to the same document, and it is
\* ChangesRequested whenever the joined texts hold MAKE CHANGES in any letter
\* case, also where the marker lies across two or more fragments.
C27_SplitIndependence ==
    review_passed /= None
        => /\ \A cs \in OtherStreams :
                  JoinedTexts(cs) = JoinedTexts(chunks)
                      => classify(Accumulated(cs)).passed = review_passed[1]
           /\ MentionsMakeChanges(JoinedTexts(chunks)) => ~review_passed[1]

\* C27 witness: MAKE CHANGES arrived in two fragments, neither of which holds it,
\* and the verdict is ChangesRequested.
C27_Witness ==
    /\ chunks = <<Some(<<"M", "A", "K", "E", " ">>),
                  Some(<<"C", "H", "A", "N", "G", "E", "S">>)>>
    /\ review_passed = Some(FALSE)

\* How many status lines were printed.
StatusCount == Cardinality({i \in 1..Len(console) : console[i] \in StatusLines})

\* C28: the status line never contradicts the verdict.  'Review passed: Approved'
\* is printed only when the verdict is Approved, 'Review failed: Changes
\* requested' only when it is ChangesRequested, at most one status line is printed
\* in a run, and a document that holds both Conclusion: APPROVED and MAKE CHANGES
\* in any letter case does not get the 'passed' line.
C28_StatusAgreesWithVerdict ==
    /\ "Review passed: Approved" \in PrintedStatus => review_passed = Some(TRUE)
    /\ "Review failed: Changes requested" \in PrintedStatus => review_passed = Some(FALSE)
    /\ StatusCount <= 1
    /\ (/\ review_passed /= None
        /\ Contains(full_text, Conclusion \o APPROVED)
        /\ MentionsMakeChanges(full_text))
           => "Review passed: Approved" \notin PrintedStatus

\* C28 witness: a document with Conclusion: APPROVED and a lower-case make changes
\* was classified as ChangesRequested and no status line was printed.
C28_Witness ==
    /\ review_passed = Some(FALSE)
    /\ full_text = Conclusion \o APPROVED
                     \o <<"m", "a", "k", "e", " ", "c", "h", "a", "n", "g", "e", "s">>
    /\ PrintedStatus = {}
    /\ console /= <<>>

\* The diff tool succeeded with an output that is empty or only whitespace.
RawOutputBlank == proc /= None /\ proc[1].kind = "ok" /\ IsBlank(proc[1].stdout)

\* C29: for every --max-chars, a review run whose diff tool output is empty or
\* only whitespace has exited with code 0 without a prompt sent or a client
\* call: the provider is called only for a raw output with a character that is
\* not whitespace.
C29_BlankRawOutputShortCircuits ==
    (command = "review" /\ RawOutputBlank)
        => (pc = "exit" /\ exit_code = 0 /\ sent = <<>> /\ genai_calls = <<>>)

====
